---- MODULE Spec2Model ----
(***************************************************************************)
(* The auction bidding and escrow engine of the Bidding repository         *)
(* (Django): one AuctionItem row, its Bid rows, the bidders' Wallet rows,  *)
(* the WalletTransaction ledger, the AuctionExtension records and the     *)
(* WalletPayment rows of the top-up orders, and the views that change them.*)
(*                                                                         *)
(* A view loads model instances into memory, decides on the copies, and    *)
(* later writes them back: Model.save() writes every field of the row from *)
(* the in-memory instance.  Each view is therefore two steps, <View>Load   *)
(* (the reads and the checks made on them) and <View>Commit / <View>Save   *)
(* (the writes, one step: the `with transaction.atomic()` block where the  *)
(* view has one), and requests of different users interleave between the   *)
(* two.  A request that a check turns away changes nothing and holds no    *)
(* slot: its Load step is simply not enabled.                              *)
(*                                                                         *)
(* Time is in minutes.  Amounts are whole currency units.                  *)
(***************************************************************************)
EXTENDS Integers, Sequences, FiniteSets

\* ------------------------------------------------------------------ bounds
MaxBids == 2          \* Bid rows ever created
MaxWithdrawals == 1   \* withdraw_funds requests accepted per run
MaxDeposits == 2      \* verify_payment callbacks accepted per run

\* ----------------------------------------------------------- the scenario
Seller == "S"
Bidders == {"A", "B"}
Users == Bidders \cup {Seller}
None == "none"                         \* a null foreign key
NoTime == 0 - 1                        \* a null DateTimeField
Reqs == {1, 2}                         \* requests that can be in flight together
StartingPrice == 2                     \* AuctionItem.starting_price of the auction
InitialEndTime == 6                    \* AuctionItem.end_time the seller entered
InitialBalance == 5                    \* each user's wallet after one deposit
Amounts == {1, 2, 3}                   \* amounts entered in BidForm
ExtensionHours == {1}                  \* ExtendTimeForm.extension_hours choices
WithdrawAmounts == {3}                 \* amounts entered in WithdrawFundsForm
DepositAmounts == {1, 2}               \* amounts entered in AddFundsForm
MinutesPerHour == 60                   \* timedelta(hours=extension_hours)
WithdrawWindow == 5                    \* Bid.can_be_deleted: timedelta(minutes=5)
MaxExtensions == 3                     \* AuctionItem.can_extend_time: < 3
CreatedAt == 0                         \* AuctionItem.created_at of the auction
DeleteWindow == 10                     \* can_be_deleted_by_seller: timedelta(minutes=10)
\* the instants at which requests arrive: the start, the end time (the
\* withdrawal window of a bid placed at the start is over by then), and the
\* end time after an extension
Instants == {0, InitialEndTime, InitialEndTime + MinutesPerHour}

VARIABLES
    now,          \* timezone.now()
    auction,      \* the AuctionItem row
    bids,         \* the Bid rows ever created, by id (1..Len): a withdrawn bid
                  \* stays, is_deleted; a row deleted from the table is `removed`
    balance,      \* Wallet.balance, by owner
    ledger,       \* the WalletTransaction rows in commit order
    extensions,   \* the AuctionExtension rows in commit order
    withdrawals,  \* withdraw_funds requests accepted so far (bounds the run)
    payment,      \* the WalletPayment row of each bidder's order
    req           \* the requests in flight: what each holds in memory

vars == <<now, auction, bids, balance, ledger, extensions, withdrawals, payment, req>>

\* ---------------------------------------------------------------- helpers
NoItem == [status |-> "none", current_price |-> 0, end_time |-> 0,
           winner |-> None, time_extensions |-> 0]

\* no WalletPayment row yet
NoPayment == [status |-> "none", amount |-> 0]

Idle == [op |-> "idle", user |-> None, amount |-> 0, bid |-> 0,
         item |-> NoItem, wallet |-> 0]

\* AuctionItem.is_active
is_active(item, t) == item.status \in {"active", "extended"} /\ t < item.end_time

\* AuctionItem.can_extend_time
can_extend_time(item) == item.status = "active" /\ item.time_extensions < MaxExtensions

\* AuctionItem.can_be_ended_early, and the same test inline in manage_auction
can_be_ended_early(item) == item.status = "active"

\* place_bid without the balance check of views.py:165
NoBalanceCheck(bal, amount) == TRUE

\* Wallet.has_sufficient_balance
has_sufficient_balance(bal, amount) == bal >= amount

\* BidForm.clean_amount: the only validation of the amount
clean_amount(amount) == amount > 0

\* Bid.objects.filter(item=auction): the rows in the table
Rows(bs) == {i \in DOMAIN bs : ~bs[i].removed}

\* bids.filter(is_deleted=False)
NotDeleted(bs) == {i \in Rows(bs) : ~bs[i].is_deleted}

\* <queryset>.order_by('-amount').first() over the rows S: a row of the largest
\* amount.  The query is ORDER BY amount DESC LIMIT 1: it orders by amount alone,
\* which SQL leaves unordered among rows of equal amount, so any of them may be
\* the row returned, and not the same one in every query.  The empty set
\* stands for None.
FirstByAmount(bs, S) == {i \in S : \A j \in S : bs[j].amount <= bs[i].amount}

\* highest_bid.bidder
BidderOf(bs, i) == bs[i].bidder

\* AuctionItem.update_current_price on the in-memory instance `item`
update_current_price(item, bs) ==
    LET top == FirstByAmount(bs, NotDeleted(bs))
    IN  [item EXCEPT !.current_price =
            IF top = {} THEN StartingPrice
            ELSE bs[CHOOSE i \in top : TRUE].amount]

\* Bid.can_be_deleted with the time limit included: now <= time_limit
CanBeDeletedInclusive(b, hb, item, bs, t) ==
    /\ b # hb
    /\ is_active(item, t)
    /\ t <= bs[b].timestamp + WithdrawWindow

\* Bid.can_be_deleted, given the row `hb` its leader query returned (0: none)
can_be_deleted(b, hb, item, bs, t) ==
    /\ b # hb
    /\ is_active(item, t)
    /\ t < bs[b].timestamp + WithdrawWindow

\* WalletTransaction.objects.create(...)
Txn(u, kind, amount, after) ==
    [wallet |-> u, kind |-> kind, amount |-> amount, balance_after |-> after]

\* the lowest free request slot (slots are interchangeable)
FreeSlot(r) == req[r] = Idle /\ \A q \in Reqs : q < r => req[q] # Idle

\* ------------------------------------------------------------------- Init
Init ==
    /\ now = 0
    /\ auction = [status |-> "active", current_price |-> StartingPrice,
                  end_time |-> InitialEndTime, winner |-> None,
                  time_extensions |-> 0]
    /\ bids = <<>>
    /\ balance = [u \in Users |-> InitialBalance]
    /\ ledger = <<>>
    /\ extensions = <<>>
    /\ withdrawals = 0
    /\ payment = [u \in Bidders |-> NoPayment]
    /\ req = [r \in Reqs |-> Idle]

\* ------------------------------------------------------------------ clock
\* timezone.now() moves on to the next instant
Tick(instants) ==
    /\ \E t \in instants :
          /\ t > now
          /\ \A s \in instants : s > now => t <= s
          /\ now' = t
    /\ UNCHANGED <<auction, bids, balance, ledger, extensions, withdrawals, payment, req>>

\* -------------------------------------------------------------- place_bid
\* place_bid requests that passed their checks and have not written yet
PendingBids == Cardinality({q \in Reqs : req[q].op = "place_bid"})

\* place_bid with a test of the status alone in place of is_active
PlaceBidLoadStatusOnly(r, u, amount) ==
    /\ FreeSlot(r)
    /\ Len(bids) + PendingBids < MaxBids
    /\ auction.status \in {"active", "extended"}
    /\ u # Seller
    /\ clean_amount(amount)
    /\ has_sufficient_balance(balance[u], amount)
    /\ req' = [req EXCEPT ![r] = [op |-> "place_bid", user |-> u, amount |-> amount,
                                  bid |-> 0, item |-> auction, wallet |-> balance[u]]]
    /\ UNCHANGED <<now, auction, bids, balance, ledger, extensions, withdrawals, payment>>

\* place_bid without the test `request.user == auction.seller`
PlaceBidLoadAnyUser(r, u, amount) ==
    /\ FreeSlot(r)
    /\ Len(bids) + PendingBids < MaxBids
    /\ is_active(auction, now)
    /\ clean_amount(amount)
    /\ has_sufficient_balance(balance[u], amount)
    /\ req' = [req EXCEPT ![r] = [op |-> "place_bid", user |-> u, amount |-> amount,
                                  bid |-> 0, item |-> auction, wallet |-> balance[u]]]
    /\ UNCHANGED <<now, auction, bids, balance, ledger, extensions, withdrawals, payment>>

\* views.place_bid up to the atomic block: the auction and the wallet are read,
\* and the checks are made on the copies.
PlaceBidLoad(r, u, amount) ==
    /\ FreeSlot(r)
    /\ Len(bids) + PendingBids < MaxBids
    /\ is_active(auction, now)
    /\ u # Seller
    /\ clean_amount(amount)
    /\ has_sufficient_balance(balance[u], amount)
    /\ req' = [req EXCEPT ![r] = [op |-> "place_bid", user |-> u, amount |-> amount,
                                  bid |-> 0, item |-> auction, wallet |-> balance[u]]]
    /\ UNCHANGED <<now, auction, bids, balance, ledger, extensions, withdrawals, payment>>

\* signals.update_auction_winner on the in-memory auction, after the Bid row
\* `bs` holds was created
update_auction_winner(item, bs, t, hb) ==
    IF t >= item.end_time /\ item.status = "active"
    THEN [item EXCEPT !.status = "closed", !.winner = BidderOf(bs, hb)]
    ELSE item

\* place_bid without its transaction: the wallet and the ledger are written and
\* the request ends before the Bid row is created
PlaceBidCommitNoBid(r) ==
    /\ req[r].op = "place_bid"
    /\ LET u == req[r].user
           new_balance == req[r].wallet - req[r].amount
       IN  /\ balance' = [balance EXCEPT ![u] = new_balance]
           /\ ledger' = Append(ledger, Txn(u, "bid_placed", req[r].amount, new_balance))
    /\ req' = [req EXCEPT ![r] = Idle]
    /\ UNCHANGED <<now, auction, bids, extensions, withdrawals, payment>>

\* the atomic block of views.place_bid
PlaceBidCommit(r) ==
    /\ req[r].op = "place_bid"
    /\ LET u == req[r].user
           amount == req[r].amount
           new_balance == req[r].wallet - amount
           bs == Append(bids, [bidder |-> u, amount |-> amount, timestamp |-> now,
                               is_deleted |-> FALSE, deleted_at |-> NoTime,
                               removed |-> FALSE])
       IN  /\ balance' = [balance EXCEPT ![u] = new_balance]
           /\ ledger' = Append(ledger, Txn(u, "bid_placed", amount, new_balance))
           /\ bids' = bs
           /\ \E hb \in FirstByAmount(bs, Rows(bs)) :
                 auction' = [update_auction_winner(req[r].item, bs, now, hb)
                                EXCEPT !.current_price = amount]
    /\ req' = [req EXCEPT ![r] = Idle]
    /\ UNCHANGED <<now, extensions, withdrawals, payment>>

\* ------------------------------------------------------------- delete_bid
\* views.delete_bid up to the atomic block: the bid (of this user, not yet
\* withdrawn) and its auction are read; is_active and can_be_deleted are checked.
DeleteBidLoad(r, u, b) ==
    /\ FreeSlot(r)
    /\ b \in Rows(bids)
    /\ bids[b].bidder = u
    /\ ~bids[b].is_deleted
    /\ is_active(auction, now)
    /\ \E hb \in FirstByAmount(bids, NotDeleted(bids)) :
          can_be_deleted(b, hb, auction, bids, now)
    /\ req' = [req EXCEPT ![r] = [op |-> "delete_bid", user |-> u,
                                  amount |-> bids[b].amount, bid |-> b,
                                  item |-> auction, wallet |-> 0]]
    /\ UNCHANGED <<now, auction, bids, balance, ledger, extensions, withdrawals, payment>>

\* Bid.soft_delete on the rows `bs` (its update_current_price is applied by
\* the caller, on the auction instance the bid holds); self.save() writes the
\* row of the instance, and inserts it when the table no longer has it
soft_delete(bs, b, t) ==
    [bs EXCEPT ![b].is_deleted = TRUE, ![b].deleted_at = t, ![b].removed = FALSE]

\* delete_bid with a soft_delete that does not recompute the price
DeleteBidCommitNoPrice(r) ==
    /\ req[r].op = "delete_bid"
    /\ LET u == req[r].user
           new_balance == balance[u] + req[r].amount
       IN  /\ balance' = [balance EXCEPT ![u] = new_balance]
           /\ ledger' = Append(ledger, Txn(u, "bid_refund", req[r].amount, new_balance))
           /\ bids' = soft_delete(bids, req[r].bid, now)
    /\ req' = [req EXCEPT ![r] = Idle]
    /\ UNCHANGED <<now, auction, extensions, withdrawals, payment>>

\* the atomic block of views.delete_bid: the wallet is read here, the refund
\* is added, the bid is marked and the auction instance read before the block
\* is saved with the recomputed price.
DeleteBidCommit(r) ==
    /\ req[r].op = "delete_bid"
    /\ LET u == req[r].user
           new_balance == balance[u] + req[r].amount
           bs == soft_delete(bids, req[r].bid, now)
       IN  /\ balance' = [balance EXCEPT ![u] = new_balance]
           /\ ledger' = Append(ledger, Txn(u, "bid_refund", req[r].amount, new_balance))
           /\ bids' = bs
           /\ auction' = update_current_price(req[r].item, bs)
    /\ req' = [req EXCEPT ![r] = Idle]
    /\ UNCHANGED <<now, extensions, withdrawals, payment>>

\* ---------------------------------------------------- extend_auction_time
\* extend_auction_time without the can_extend_time test
ExtendLoadNoCheck(r, u, hours) ==
    /\ FreeSlot(r)
    /\ u = Seller
    /\ req' = [req EXCEPT ![r] = [op |-> "extend", user |-> u, amount |-> hours,
                                  bid |-> 0, item |-> auction, wallet |-> 0]]
    /\ UNCHANGED <<now, auction, bids, balance, ledger, extensions, withdrawals, payment>>

\* views.extend_auction_time up to its writes: the auction is read, the user
\* must be its seller and can_extend_time must hold
ExtendLoad(r, u, hours) ==
    /\ FreeSlot(r)
    /\ u = Seller
    /\ can_extend_time(auction)
    /\ req' = [req EXCEPT ![r] = [op |-> "extend", user |-> u, amount |-> hours,
                                  bid |-> 0, item |-> auction, wallet |-> 0]]
    /\ UNCHANGED <<now, auction, bids, balance, ledger, extensions, withdrawals, payment>>

ExtendCommit(r) ==
    /\ req[r].op = "extend"
    /\ LET item == req[r].item
           new_end_time == item.end_time + req[r].amount * MinutesPerHour
       IN  /\ extensions' = Append(extensions, [old_end_time |-> item.end_time,
                                                new_end_time |-> new_end_time])
           /\ auction' = [item EXCEPT !.end_time = new_end_time,
                                      !.time_extensions = @ + 1,
                                      !.status = "extended"]
    /\ req' = [req EXCEPT ![r] = Idle]
    /\ UNCHANGED <<now, bids, balance, ledger, withdrawals, payment>>

\* ------------------------------------------------------ closing an auction
\* What the four closing paths do to the instance they hold: status closed,
\* winner the bidder of the row `hb` the highest-bid query returned (0: no row,
\* the winner is left as it is).
close(item, bs, hb) ==
    IF hb = 0 THEN [item EXCEPT !.status = "closed"]
    ELSE [item EXCEPT !.status = "closed", !.winner = BidderOf(bs, hb)]

\* what `.first()` may return: a row of S of the largest amount, or 0 for None
First(bs, S) == IF S = {} THEN {0} ELSE FirstByAmount(bs, S)

\* the sweep with the filter of the management command: status='active' only
SweepLoadActiveOnly(r) ==
    /\ FreeSlot(r)
    /\ auction.status = "active"
    /\ auction.end_time <= now
    /\ req' = [req EXCEPT ![r] = [op |-> "sweep", user |-> None, amount |-> 0,
                                  bid |-> 0, item |-> auction, wallet |-> 0]]
    /\ UNCHANGED <<now, auction, bids, balance, ledger, extensions, withdrawals, payment>>

\* views.auto_close_expired_auctions (home, auction_list, auction_detail,
\* my_auctions): the queryset is evaluated ...
SweepLoad(r) ==
    /\ FreeSlot(r)
    /\ auction.status \in {"active", "extended"}
    /\ auction.end_time <= now
    /\ req' = [req EXCEPT ![r] = [op |-> "sweep", user |-> None, amount |-> 0,
                                  bid |-> 0, item |-> auction, wallet |-> 0]]
    /\ UNCHANGED <<now, auction, bids, balance, ledger, extensions, withdrawals, payment>>

\* ... and each auction it returned is closed and saved
SweepSave(r) ==
    /\ req[r].op = "sweep"
    /\ \E hb \in First(bids, NotDeleted(bids)) :
          auction' = close(req[r].item, bids, hb)
    /\ req' = [req EXCEPT ![r] = Idle]
    /\ UNCHANGED <<now, bids, balance, ledger, extensions, withdrawals, payment>>

\* management command close_expired_auctions
CommandLoad(r) ==
    /\ FreeSlot(r)
    /\ auction.end_time <= now
    /\ auction.status = "active"
    /\ req' = [req EXCEPT ![r] = [op |-> "command", user |-> None, amount |-> 0,
                                  bid |-> 0, item |-> auction, wallet |-> 0]]
    /\ UNCHANGED <<now, auction, bids, balance, ledger, extensions, withdrawals, payment>>

CommandSave(r) ==
    /\ req[r].op = "command"
    /\ \E hb \in First(bids, Rows(bids)) :
          auction' = close(req[r].item, bids, hb)
    /\ req' = [req EXCEPT ![r] = Idle]
    /\ UNCHANGED <<now, bids, balance, ledger, extensions, withdrawals, payment>>

\* views.manage_auction, action end_auction
ManageLoad(r, u) ==
    /\ FreeSlot(r)
    /\ u = Seller
    /\ can_be_ended_early(auction)
    /\ req' = [req EXCEPT ![r] = [op |-> "end_auction", user |-> u, amount |-> 0,
                                  bid |-> 0, item |-> auction, wallet |-> 0]]
    /\ UNCHANGED <<now, auction, bids, balance, ledger, extensions, withdrawals, payment>>

ManageSave(r) ==
    /\ req[r].op = "end_auction"
    /\ \E hb \in First(bids, NotDeleted(bids)) :
          auction' = close(req[r].item, bids, hb)
    /\ req' = [req EXCEPT ![r] = Idle]
    /\ UNCHANGED <<now, bids, balance, ledger, extensions, withdrawals, payment>>

\* views.get_auction_status
StatusLoad(r) ==
    /\ FreeSlot(r)
    /\ auction.status = "active"
    /\ now >= auction.end_time
    /\ req' = [req EXCEPT ![r] = [op |-> "status", user |-> None, amount |-> 0,
                                  bid |-> 0, item |-> auction, wallet |-> 0]]
    /\ UNCHANGED <<now, auction, bids, balance, ledger, extensions, withdrawals, payment>>

StatusSave(r) ==
    /\ req[r].op = "status"
    /\ \E hb \in First(bids, NotDeleted(bids)) :
          auction' = close(req[r].item, bids, hb)
    /\ req' = [req EXCEPT ![r] = Idle]
    /\ UNCHANGED <<now, bids, balance, ledger, extensions, withdrawals, payment>>

\* --------------------------------------------------------- withdraw_funds
\* accounts.views.withdraw_funds up to the atomic block: the wallet is read and
\* WithdrawFundsForm.clean_amount checks the amount against it
WithdrawFundsLoad(r, u, amount) ==
    /\ FreeSlot(r)
    /\ withdrawals < MaxWithdrawals
    /\ u \in Bidders
    /\ amount > 0
    /\ ~(amount > balance[u])
    /\ req' = [req EXCEPT ![r] = [op |-> "withdraw_funds", user |-> u,
                                  amount |-> amount, bid |-> 0, item |-> NoItem,
                                  wallet |-> balance[u]]]
    /\ withdrawals' = withdrawals + 1
    /\ UNCHANGED <<now, auction, bids, balance, ledger, extensions, payment>>

\* Wallet.deduct_funds on the instance read above, and the ledger entry
WithdrawFundsCommit(r) ==
    /\ req[r].op = "withdraw_funds"
    /\ LET u == req[r].user
           new_balance == req[r].wallet - req[r].amount
       IN  /\ balance' = [balance EXCEPT ![u] = new_balance]
           /\ ledger' = Append(ledger, Txn(u, "withdrawal", req[r].amount, new_balance))
    /\ req' = [req EXCEPT ![r] = Idle]
    /\ UNCHANGED <<now, auction, bids, extensions, withdrawals, payment>>

\* --------------------------------------------------------- delete_auction
\* AuctionItem.can_be_deleted_by_seller
can_be_deleted_by_seller(item, bs, t) ==
    /\ item.status = "active"
    /\ t < CreatedAt + DeleteWindow
    /\ NotDeleted(bs) = {}

\* views.delete_auction up to auction.delete(): the auction of this seller is
\* read and can_be_deleted_by_seller is checked
DeleteAuctionLoad(r, u) ==
    /\ FreeSlot(r)
    /\ u = Seller
    /\ auction # NoItem
    /\ can_be_deleted_by_seller(auction, bids, now)
    /\ req' = [req EXCEPT ![r] = [op |-> "delete_auction", user |-> u, amount |-> 0,
                                  bid |-> 0, item |-> auction, wallet |-> 0]]
    /\ UNCHANGED <<now, auction, bids, balance, ledger, extensions, withdrawals, payment>>

\* auction.delete(): the row goes, and with it the rows that reference it
\* with on_delete=CASCADE, the Bid rows and the AuctionExtension rows
DeleteAuctionCommit(r) ==
    /\ req[r].op = "delete_auction"
    /\ auction' = NoItem
    /\ bids' = [i \in DOMAIN bids |-> [bids[i] EXCEPT !.removed = TRUE]]
    /\ extensions' = <<>>
    /\ req' = [req EXCEPT ![r] = Idle]
    /\ UNCHANGED <<now, balance, ledger, withdrawals, payment>>

\* ---------------------------------------------------------- wallet top-up
\* accounts.views.add_funds: the order is created at the gateway and a pending
\* WalletPayment is saved for it (one order per bidder here)
AddFunds(u, amount) ==
    /\ u \in Bidders
    /\ amount > 0
    /\ payment[u] = NoPayment
    /\ payment' = [payment EXCEPT ![u] = [status |-> "created", amount |-> amount]]
    /\ UNCHANGED <<now, auction, bids, balance, ledger, extensions, withdrawals, req>>

\* accounts.views.verify_payment, callback whose signature does not verify:
\* the rows of the order are marked failed
VerifyPaymentFailed(u) ==
    /\ payment[u] # NoPayment
    /\ payment' = [payment EXCEPT ![u].status = "failed"]
    /\ UNCHANGED <<now, auction, bids, balance, ledger, extensions, withdrawals, req>>

\* the deposit entries of a ledger
Deposits(l) == SelectSeq(l, LAMBDA t : t.kind = "deposit")

\* verify_payment callbacks between their read and their atomic block
PendingDeposits == Cardinality({q \in Reqs : req[q].op = "verify_payment"})

\* accounts.views.verify_payment, callback whose signature verifies, up to the
\* atomic block: the WalletPayment of the order is read (the view is not in a
\* transaction there, so select_for_update holds no lock) and a payment
\* already marked success ends the request
VerifyPaymentLoad(r, u) ==
    /\ FreeSlot(r)
    /\ Len(Deposits(ledger)) + PendingDeposits < MaxDeposits
    /\ payment[u] # NoPayment
    /\ payment[u].status # "success"
    /\ req' = [req EXCEPT ![r] = [op |-> "verify_payment", user |-> u,
                                  amount |-> payment[u].amount, bid |-> 0,
                                  item |-> NoItem, wallet |-> 0]]
    /\ UNCHANGED <<now, auction, bids, balance, ledger, extensions, withdrawals, payment>>

\* the atomic block of verify_payment: the payment instance is saved as
\* success, the wallet is read and credited, the deposit entry is written
VerifyPaymentCommit(r) ==
    /\ req[r].op = "verify_payment"
    /\ LET u == req[r].user
           new_balance == balance[u] + req[r].amount
       IN  /\ payment' = [payment EXCEPT ![u] = [status |-> "success",
                                                 amount |-> req[r].amount]]
           /\ balance' = [balance EXCEPT ![u] = new_balance]
           /\ ledger' = Append(ledger, Txn(u, "deposit", req[r].amount, new_balance))
    /\ req' = [req EXCEPT ![r] = Idle]
    /\ UNCHANGED <<now, auction, bids, extensions, withdrawals>>

\* --------------------------------------------------------- specifications
\* The whole engine, one request at a time: every view runs from its reads to
\* its writes before the next request starts (the clock may still move
\* between the two).
Next ==
    \/ Tick(Instants)
    \/ \E u \in Users, amount \in Amounts : PlaceBidLoad(1, u, amount)
    \/ PlaceBidCommit(1)
    \/ \E u \in Users, b \in 1..MaxBids : DeleteBidLoad(1, u, b)
    \/ DeleteBidCommit(1)
    \/ \E u \in Users, hours \in ExtensionHours : ExtendLoad(1, u, hours)
    \/ ExtendCommit(1)
    \/ SweepLoad(1)
    \/ SweepSave(1)
    \/ CommandLoad(1)
    \/ CommandSave(1)
    \/ \E u \in Users : ManageLoad(1, u)
    \/ ManageSave(1)
    \/ StatusLoad(1)
    \/ StatusSave(1)
    \/ \E u \in Users, amount \in WithdrawAmounts : WithdrawFundsLoad(1, u, amount)
    \/ WithdrawFundsCommit(1)

Spec == Init /\ [][Next]_vars

\* Bidders racing: two requests in flight on the open auction and the wallets.
RaceAmounts == {StartingPrice + 1, StartingPrice + 2}

NextBidding ==
    \/ \E r \in Reqs, u \in Users, amount \in RaceAmounts : PlaceBidLoad(r, u, amount)
    \/ \E r \in Reqs : PlaceBidCommit(r)
    \/ \E r \in Reqs, u \in Users, b \in 1..MaxBids : DeleteBidLoad(r, u, b)
    \/ \E r \in Reqs : DeleteBidCommit(r)
    \/ \E r \in Reqs, u \in Users, amount \in WithdrawAmounts : WithdrawFundsLoad(r, u, amount)
    \/ \E r \in Reqs : WithdrawFundsCommit(r)

SpecBidding == Init /\ [][NextBidding]_vars

\* Closing racing with bids, withdrawals and extensions: two requests in
\* flight while the auction expires or the seller ends it.
NextClosing ==
    \/ Tick(Instants)
    \/ \E r \in Reqs, u \in Users, amount \in RaceAmounts : PlaceBidLoad(r, u, amount)
    \/ \E r \in Reqs : PlaceBidCommit(r)
    \/ \E r \in Reqs, u \in Users, b \in 1..MaxBids : DeleteBidLoad(r, u, b)
    \/ \E r \in Reqs : DeleteBidCommit(r)
    \/ \E r \in Reqs, u \in Users, hours \in ExtensionHours : ExtendLoad(r, u, hours)
    \/ \E r \in Reqs : ExtendCommit(r)
    \/ \E r \in Reqs : SweepLoad(r)
    \/ \E r \in Reqs : SweepSave(r)
    \/ \E r \in Reqs : CommandLoad(r)
    \/ \E r \in Reqs : CommandSave(r)
    \/ \E r \in Reqs, u \in Users : ManageLoad(r, u)
    \/ \E r \in Reqs : ManageSave(r)
    \/ \E r \in Reqs : StatusLoad(r)
    \/ \E r \in Reqs : StatusSave(r)

SpecClosing == Init /\ [][NextClosing]_vars

\* The withdrawal window seen minute by minute: one request at a time, the
\* clock stopping one minute before the window of a bid placed at the start
\* ends, when it ends, and at the end time.
WindowInstants == {0, WithdrawWindow - 1, WithdrawWindow, InitialEndTime}

NextWindow ==
    \/ Tick(WindowInstants)
    \/ \E u \in Users, amount \in Amounts : PlaceBidLoad(1, u, amount)
    \/ PlaceBidCommit(1)
    \/ \E u \in Users, b \in 1..MaxBids : DeleteBidLoad(1, u, b)
    \/ DeleteBidCommit(1)
    \/ \E u \in Users, hours \in ExtensionHours : ExtendLoad(1, u, hours)
    \/ ExtendCommit(1)
    \/ \E u \in Users : ManageLoad(1, u)
    \/ ManageSave(1)

SpecWindow == Init /\ [][NextWindow]_vars

\* No read traffic: bids, withdrawals and extensions arrive one at a time and
\* no page is viewed, so the only closing path that runs is the periodic
\* close_expired_auctions command.  The command keeps being run, and a request
\* that has read its rows goes on to write them.
NextCommand ==
    \/ Tick(Instants)
    \/ \E u \in Users, amount \in Amounts : PlaceBidLoad(1, u, amount)
    \/ PlaceBidCommit(1)
    \/ \E u \in Users, b \in 1..MaxBids : DeleteBidLoad(1, u, b)
    \/ DeleteBidCommit(1)
    \/ \E u \in Users, hours \in ExtensionHours : ExtendLoad(1, u, hours)
    \/ ExtendCommit(1)
    \/ CommandLoad(1)
    \/ CommandSave(1)

SpecCommand ==
    /\ Init
    /\ [][NextCommand]_vars
    /\ WF_vars(CommandLoad(1))
    /\ WF_vars(CommandSave(1))
    /\ WF_vars(PlaceBidCommit(1))
    /\ WF_vars(DeleteBidCommit(1))
    /\ WF_vars(ExtendCommit(1))

\* The wallet under overlapping requests: top-up orders and their gateway
\* callbacks, and place_bid on the same wallets.
NextPayment ==
    \/ \E u \in Bidders, amount \in DepositAmounts : AddFunds(u, amount)
    \/ \E u \in Bidders : VerifyPaymentFailed(u)
    \/ \E r \in Reqs, u \in Bidders : VerifyPaymentLoad(r, u)
    \/ \E r \in Reqs : VerifyPaymentCommit(r)
    \/ \E r \in Reqs, u \in Users, amount \in RaceAmounts : PlaceBidLoad(r, u, amount)
    \/ \E r \in Reqs : PlaceBidCommit(r)

SpecPayment == Init /\ [][NextPayment]_vars

\* The auction under overlapping requests of the bidders and the seller who
\* deletes it.
NextDelete ==
    \/ Tick(Instants)
    \/ \E r \in Reqs, u \in Users, amount \in RaceAmounts : PlaceBidLoad(r, u, amount)
    \/ \E r \in Reqs : PlaceBidCommit(r)
    \/ \E r \in Reqs, u \in Users, b \in 1..MaxBids : DeleteBidLoad(r, u, b)
    \/ \E r \in Reqs : DeleteBidCommit(r)
    \/ \E r \in Reqs, u \in Users : DeleteAuctionLoad(r, u)
    \/ \E r \in Reqs : DeleteAuctionCommit(r)

SpecDelete == Init /\ [][NextDelete]_vars

\* An auction from its first bid to its closing, one request at a time: bids
\* of three amounts above the starting price, withdrawals inside and outside
\* the window, and the read-path sweep at the end time.
ScenarioAmounts == {StartingPrice + 1, StartingPrice + 2, StartingPrice + 3}

NextScenario ==
    \/ Tick(WindowInstants)
    \/ \E u \in Users, amount \in ScenarioAmounts : PlaceBidLoad(1, u, amount)
    \/ PlaceBidCommit(1)
    \/ \E u \in Users, b \in 1..MaxBids : DeleteBidLoad(1, u, b)
    \/ DeleteBidCommit(1)
    \/ SweepLoad(1)
    \/ SweepSave(1)

SpecScenario == Init /\ [][NextScenario]_vars

\* ================================================================= claims
\* the amount of the highest non-withdrawn bid, or the starting price when no
\* bid is left (spec: currentPrice)
LeaderAmount(bs) ==
    IF NotDeleted(bs) = {} THEN StartingPrice
    ELSE bs[CHOOSE i \in FirstByAmount(bs, NotDeleted(bs)) : TRUE].amount

\* C1 -- price-leader consistency: in every reachable state current_price is
\* the largest amount among the non-withdrawn bids, or starting_price when
\* there is none.
C1_PriceLeaderConsistency == auction.current_price = LeaderAmount(bids)

RECURSIVE SumOf(_, _, _)
\* the sum of the amounts of wallet u's ledger entries of the given kinds
SumOf(l, u, kinds) ==
    IF l = <<>> THEN 0
    ELSE (IF Head(l).wallet = u /\ Head(l).kind \in kinds THEN Head(l).amount ELSE 0)
         + SumOf(Tail(l), u, kinds)

\* C2 -- wallet conservation: every wallet's stored balance is its initial
\* balance plus its committed credits (deposit, bid_refund) minus its committed
\* debits (bid_placed, withdrawal), also when requests on the wallet overlap.
C2_WalletConservation ==
    \A u \in Bidders :
        balance[u] = InitialBalance + SumOf(ledger, u, {"deposit", "bid_refund"})
                                    - SumOf(ledger, u, {"bid_placed", "withdrawal"})

\* C3 -- a bid whose amount is less than or equal to the current price is
\* rejected: every step that records a Bid records one whose amount exceeds
\* the current price stored when it is recorded.
C3_BidTooLowRejected ==
    [][Len(bids') > Len(bids) =>
          bids'[Len(bids')].amount > auction.current_price]_vars

\* C4 -- two place_bid requests racing against the same stale price: a
\* place_bid that commits after another bid changed the price it read leaves
\* current_price no lower than any non-withdrawn bid.
C4_NoStalePriceOverwrite ==
    [][\A r \in Reqs :
          (/\ req[r].op = "place_bid"
           /\ req'[r] = Idle
           /\ req[r].amount > req[r].item.current_price
           /\ req[r].item.current_price # auction.current_price)
          => \A i \in NotDeleted(bids') : bids'[i].amount <= auction'.current_price]_vars

\* C5 -- closed is terminal: no step takes the stored status from closed to
\* anything else.
C5_ClosedIsTerminal ==
    [][auction.status = "closed" => auction'.status = "closed"]_vars

ClosingOps == {"sweep", "command", "end_auction", "status"}

\* C6 -- idempotent closure: a close (sweep, command, end-early, status
\* endpoint) that writes an auction already stored as closed leaves its status
\* and winner as they are.
C6_IdempotentClosure ==
    [][\A r \in Reqs :
          (req[r].op \in ClosingOps /\ req'[r] = Idle /\ auction.status = "closed")
          => (auction'.status = "closed" /\ auction'.winner = auction.winner)]_vars

\* the bidders the winner may be: those of the non-withdrawn bids of the
\* largest amount, or nobody when no bid is left
LeaderBidders(bs) ==
    IF NotDeleted(bs) = {} THEN {None}
    ELSE {bs[i].bidder : i \in FirstByAmount(bs, NotDeleted(bs))}

\* C7 -- on every step that stores the auction as closed, the stored winner is
\* the bidder of a highest non-withdrawn bid, or unset when there is none.
C7_WinnerIsLeader ==
    [][(auction.status # "closed" /\ auction'.status = "closed")
          => auction'.winner \in LeaderBidders(bids')]_vars

\* the ledger entries that bids and their refunds wrote
BidTxns(l) == SelectSeq(l, LAMBDA t : t.kind \in {"bid_placed", "bid_refund"})

\* C8 -- once the auction is stored as closed no bid, withdrawal or extension
\* takes effect: no Bid row is created or marked withdrawn, no wallet is debited
\* or refunded for a bid, end_time and time_extensions keep their values.
C8_NothingAfterClose ==
    [][auction.status = "closed" =>
          /\ bids' = bids
          /\ BidTxns(ledger') = BidTxns(ledger)
          /\ auction'.end_time = auction.end_time
          /\ auction'.time_extensions = auction.time_extensions
          /\ extensions' = extensions]_vars

\* C9 -- extension bound: the seller's extend request is accepted exactly while
\* the auction is open (active or extended) with fewer than three extensions.
C9_ExtensionBound ==
    req[1] = Idle =>
        \A hours \in ExtensionHours :
            (ENABLED ExtendLoad(1, Seller, hours))
            <=> (/\ auction.status \in {"active", "extended"}
                 /\ auction.time_extensions < 3)

\* C10 -- a withdrawal never marks withdrawn the bid that leads when it
\* commits: at every step that marks a bid withdrawn, another non-withdrawn bid
\* of at least its amount exists.
C10_LeaderNeverWithdrawn ==
    [][\A b \in DOMAIN bids :
          (~bids[b].is_deleted /\ bids'[b].is_deleted)
          => \E i \in NotDeleted(bids) : i # b /\ bids[i].amount >= bids[b].amount]_vars

RECURSIVE WithdrawnOf(_, _)
\* the sum of the amounts of bidder u's withdrawn bids
WithdrawnOf(bs, u) ==
    IF bs = <<>> THEN 0
    ELSE (IF Head(bs).bidder = u /\ Head(bs).is_deleted THEN Head(bs).amount ELSE 0)
         + WithdrawnOf(Tail(bs), u)

\* C11 -- each bid is refunded at most once: the bid_refund entries of a
\* bidder never add up to more than the amounts of that bidder's withdrawn bids.
C11_RefundedAtMostOnce ==
    \A u \in Bidders :
        SumOf(ledger, u, {"bid_refund"}) <= WithdrawnOf(bids, u)

\* the ledger entries that place_bid wrote
BidPlaced(l) == SelectSeq(l, LAMBDA t : t.kind = "bid_placed")

\* C12 -- place_bid is all-or-nothing: the Bid rows and the bid_placed ledger
\* entries correspond one to one, each pair with the same bidder and amount.
C12_BidAllOrNothing ==
    LET p == BidPlaced(ledger)
    IN  /\ Len(p) = Len(bids)
        /\ \A i \in DOMAIN bids :
              p[i].wallet = bids[i].bidder /\ p[i].amount = bids[i].amount

\* two bids of different bidders and amounts are recorded, and the ledger
\* holds entries of other kinds besides theirs
C12_Witness ==
    /\ Len(bids) = 2
    /\ Len(BidPlaced(ledger)) = 2
    /\ bids[1].amount # bids[2].amount
    /\ bids[1].bidder # bids[2].bidder
    /\ Len(ledger) > 2

\* C13 -- no operation drives a wallet below zero: every stored balance is
\* at least 0, whatever requests on the wallet overlap.
C13_BalanceNeverNegative == \A u \in Bidders : balance[u] >= 0

\* a wallet whose committed debits add up to more than it ever held
C13_Witness ==
    \E u \in Bidders :
        SumOf(ledger, u, {"bid_placed", "withdrawal"})
            > InitialBalance + SumOf(ledger, u, {"deposit", "bid_refund"})

\* another non-withdrawn bid of at least b's amount exists: b is not the leader
\* (among bids of equal amount, not the only candidate)
NotLeader(b) ==
    \E i \in NotDeleted(bids) : i # b /\ bids[i].amount >= bids[b].amount

\* C14 -- withdraw eligibility: delete_bid accepts a non-withdrawn bid of its
\* bidder exactly when the auction is open (active or extended, now < end_time),
\* the bid is not the leader, and now < timestamp + 5 minutes.
C14_WithdrawEligibility ==
    req[1] = Idle =>
        \A b \in NotDeleted(bids) :
            (ENABLED DeleteBidLoad(1, bids[b].bidder, b))
            <=> (/\ auction.status \in {"active", "extended"}
                 /\ now < auction.end_time
                 /\ NotLeader(b)
                 /\ now < bids[b].timestamp + 5)

\* a non-leading bid on an open auction exactly at timestamp + 5 minutes
C14_Witness ==
    /\ req[1] = Idle
    /\ auction.status \in {"active", "extended"}
    /\ now < auction.end_time
    /\ \E b \in NotDeleted(bids) : NotLeader(b) /\ now = bids[b].timestamp + 5

\* C15 -- a successful withdrawal of bid b credits the bidder's wallet by
\* exactly b.amount with one bid_refund entry, marks b withdrawn at the present
\* time, leaves current_price at the highest remaining non-withdrawn amount (or
\* the starting price) and changes no other wallet and no other bid.
C15_WithdrawalEffect ==
    [][\A r \in Reqs :
          (req[r].op = "delete_bid" /\ req'[r] = Idle) =>
             LET b == req[r].bid
                 u == bids[b].bidder
             IN  /\ balance'[u] = balance[u] + bids[b].amount
                 /\ \A v \in Bidders \ {u} : balance'[v] = balance[v]
                 /\ Len(ledger') = Len(ledger) + 1
                 /\ SubSeq(ledger', 1, Len(ledger)) = ledger
                 /\ ledger'[Len(ledger')].kind = "bid_refund"
                 /\ ledger'[Len(ledger')].wallet = u
                 /\ ledger'[Len(ledger')].amount = bids[b].amount
                 /\ bids'[b] = [bids[b] EXCEPT !.is_deleted = TRUE, !.deleted_at = now]
                 /\ \A i \in DOMAIN bids \ {b} : bids'[i] = bids[i]
                 /\ DOMAIN bids' = DOMAIN bids
                 /\ auction'.current_price = LeaderAmount(bids')]_vars

\* a withdrawal has just been made: the bid is marked at the present time, its
\* refund is the last ledger entry, and the price stands at a higher bid
C15_Witness ==
    /\ req[1] = Idle
    /\ Len(ledger) > 0
    /\ \E b \in DOMAIN bids :
          /\ bids[b].is_deleted
          /\ bids[b].deleted_at = now
          /\ ledger[Len(ledger)].kind = "bid_refund"
          /\ ledger[Len(ledger)].amount = bids[b].amount
          /\ auction.current_price > bids[b].amount

\* the auction is open by its status and its end time has come
Expired == auction.status \in {"active", "extended"} /\ auction.end_time <= now

\* C16 -- the sweep, run without interference: it takes the auction whenever
\* it is active or extended with end_time <= now and leaves it closed; it takes
\* no auction that is closed or whose end time is still to come.
C16_SweepClosesExpired ==
    [][/\ (req[1] = Idle /\ Expired) => ENABLED SweepLoad(1)
       /\ (req[1].op # "sweep" /\ req'[1].op = "sweep") => Expired
       /\ (req[1].op = "sweep" /\ req'[1] = Idle) =>
             /\ auction'.status = "closed"
             /\ auction'.end_time = auction.end_time
             /\ auction'.current_price = auction.current_price
             /\ auction'.time_extensions = auction.time_extensions]_vars

\* an extended auction that a sweep closed after its extended end time (no
\* other closing path takes an extended auction)
C16_Witness ==
    /\ req[1] = Idle
    /\ auction.status = "closed"
    /\ auction.time_extensions > 0
    /\ auction.end_time <= now

\* C17 -- with only the periodic command running: an auction that is active
\* or extended with its end time in the past is eventually closed.
C17_CommandEventuallyCloses == Expired ~> (auction.status = "closed")

\* C18 -- get_auction_status closes before it reports: whenever the auction
\* is active or extended with end_time <= now the endpoint takes it for
\* closing, and the auction it took is stored closed.
C18_StatusClosesExpired ==
    [][/\ (req[1] = Idle /\ Expired) => ENABLED StatusLoad(1)
       /\ (req[1].op = "status" /\ req'[1] = Idle) => auction'.status = "closed"]_vars

\* C19 -- seller-triggered early close from every open state: the seller's
\* end_auction request is taken whenever the status is active or extended and
\* never on a closed auction, and it leaves the auction closed with the
\* leader's bidder as winner (unset when no bid is left).
C19_EndEarlyFromOpen ==
    [][/\ (req[1] = Idle /\ auction.status \in {"active", "extended"})
             => ENABLED ManageLoad(1, Seller)
       /\ (req[1].op # "end_auction" /\ req'[1].op = "end_auction")
             => auction.status # "closed"
       /\ (req[1].op = "end_auction" /\ req'[1] = Idle)
             => (auction'.status = "closed" /\ auction'.winner \in LeaderBidders(bids))]_vars

\* C20 -- the winner is set at most once and only at closure: an auction with
\* a winner is closed, and a stored winner never changes to another bidder or
\* back to null.
C20_WinnerSetOnce ==
    [][/\ auction'.winner # None => auction'.status = "closed"
       /\ auction.winner # None => auction'.winner = auction.winner]_vars

\* C21 -- a debit larger than the wallet balance fails and changes nothing: a
\* bid or a withdrawal of funds for more than the wallet holds is not accepted,
\* and every Bid and every withdrawal recorded is for no more than the wallet
\* held.
C21_InsufficientBalanceRejected ==
    [][/\ req[1] = Idle =>
             \A u \in Bidders :
                /\ \A amount \in Amounts :
                      amount > balance[u] => ~ENABLED PlaceBidLoad(1, u, amount)
                /\ \A amount \in WithdrawAmounts :
                      amount > balance[u] => ~ENABLED WithdrawFundsLoad(1, u, amount)
       /\ Len(ledger') > Len(ledger) =>
             LET e == ledger'[Len(ledger')]
             IN  e.kind \in {"bid_placed", "withdrawal"} => e.amount <= balance[e.wallet]]_vars

\* a bidder whose wallet holds less than an amount that can be bid, on an
\* auction that takes bids
C21_Witness ==
    /\ req[1] = Idle
    /\ is_active(auction, now)
    /\ Len(bids) < MaxBids
    /\ \E u \in Bidders, amount \in Amounts : amount > balance[u]

\* the ledger entries of wallet u, in commit order
LedgerOf(u) == SelectSeq(ledger, LAMBDA e : e.wallet = u)

\* the change of balance an entry records
SignedAmount(e) == IF e.kind \in {"deposit", "bid_refund"} THEN e.amount ELSE 0 - e.amount

\* C22 -- each ledger entry of a wallet carries the balance that follows from
\* the previous entry of that wallet: balance_after is the previous entry's
\* balance_after (the initial balance for the first entry) plus the amount of a
\* deposit or bid_refund, minus the amount of a bid_placed or withdrawal, and
\* the last entry's balance_after is the stored balance, also when requests on
\* the same wallet overlap.
C22_LedgerChain ==
    \A u \in Bidders :
        LET l == LedgerOf(u)
        IN  /\ \A i \in 1..Len(l) :
                  l[i].balance_after =
                      (IF i = 1 THEN InitialBalance ELSE l[i - 1].balance_after)
                      + SignedAmount(l[i])
            /\ l # <<>> => l[Len(l)].balance_after = balance[u]

\* the deposit entries of wallet u
DepositsOf(u) == SelectSeq(ledger, LAMBDA t : t.kind = "deposit" /\ t.wallet = u)

\* C23 -- a top-up is credited at most once per order: whatever callbacks
\* arrive for a bidder's order, repeated or overlapping, the wallet has at most
\* one deposit entry for it, and exactly one, of the order's amount, once the
\* payment is marked success.
C23_CreditedOnce ==
    \A u \in Bidders :
        LET d == DepositsOf(u)
        IN  /\ Len(d) <= 1
            /\ payment[u].status = "success" =>
                   Len(d) = 1 /\ d[1].amount = payment[u].amount

\* C24 -- current_price never falls below starting_price: it starts at
\* starting_price and stays at or above it through every bid and withdrawal.
C24_PriceAtLeastStart ==
    auction # NoItem => auction.current_price >= StartingPrice

\* C25 -- a bid by the auction's own seller is rejected with no state change:
\* no request slot takes a place_bid of the seller, whatever the amount, and no
\* Bid row has the seller as bidder.
C25_SelfBidRejected ==
    /\ \A r \in Reqs, amount \in Amounts \cup RaceAmounts :
          ~ENABLED PlaceBidLoad(r, Seller, amount)
    /\ \A r \in Reqs : req[r].op = "place_bid" => req[r].user # Seller
    /\ \A i \in DOMAIN bids : bids[i].bidder # Seller

\* the seller's wallet covers an amount that a bidder's request is accepted
\* with, on the open auction, after a bid of a bidder was recorded
C25_Witness ==
    /\ bids # <<>>
    /\ \E amount \in RaceAmounts :
          /\ has_sufficient_balance(balance[Seller], amount)
          /\ \E u \in Bidders : ENABLED PlaceBidLoad(1, u, amount)

\* C26 -- place_bid on an auction that is not open is rejected with no state
\* change, open meaning status active or extended and now < end_time: at
\* end_time and after it, closed or not yet closed, no place_bid request of
\* any user for any amount is accepted.
C26_NotOpenRejected ==
    ~(auction.status \in {"active", "extended"} /\ now < auction.end_time) =>
        \A u \in Users, amount \in Amounts : ~ENABLED PlaceBidLoad(1, u, amount)

\* a bid arrives exactly at end_time, the auction still stored as active or
\* extended because nothing closed it, from a bidder whose wallet covers it
C26_Witness ==
    /\ now = auction.end_time
    /\ auction.status \in {"active", "extended"}
    /\ req[1] = Idle
    /\ Len(bids) < MaxBids
    /\ \E u \in Bidders, amount \in Amounts : has_sufficient_balance(balance[u], amount)

\* C27 -- an extend request from anyone but the seller, or on an auction that
\* cannot be extended (its status is not open or it has had its three
\* extensions), is refused and changes nothing: no such request is accepted,
\* and end_time, time_extensions and the AuctionExtension records change only
\* in the step that commits an extend request of the seller that was accepted
\* (the same step sets status extended).
C27_NotExtendableRejected ==
    [][/\ \A u \in Users, hours \in ExtensionHours :
             ( \/ u # Seller
               \/ auction.status \notin {"active", "extended"}
               \/ auction.time_extensions >= MaxExtensions )
             => ~ENABLED ExtendLoad(1, u, hours)
       /\ ( \/ auction'.end_time # auction.end_time
            \/ auction'.time_extensions # auction.time_extensions
            \/ extensions' # extensions )
          => req[1].op = "extend" /\ req[1].user = Seller /\ req'[1] = Idle]_vars

\* the seller asks to extend an auction that was extended and then closed
C27_Witness ==
    /\ auction.status = "closed"
    /\ extensions # <<>>
    /\ req[1] = Idle

\* the minutes the recorded extensions add up to
RECURSIVE ExtensionMinutes(_)
ExtensionMinutes(es) ==
    IF es = <<>> THEN 0
    ELSE (Head(es).new_end_time - Head(es).old_end_time) + ExtensionMinutes(Tail(es))

\* C28 -- every successful extend adds its hours to end_time, adds one to
\* time_extensions and appends one AuctionExtension record, so that after any
\* sequence or interleaving of requests the number of AuctionExtension records
\* equals time_extensions and end_time is the original end time plus the
\* recorded extensions.
C28_ExtensionsAccounted ==
    auction # NoItem =>
        /\ Len(extensions) = auction.time_extensions
        /\ auction.end_time = InitialEndTime + ExtensionMinutes(extensions)

\* C29 -- Bid rows are never removed from the table, and the auction is never
\* deleted once a bid, withdrawn or not, exists for it: after any sequence or
\* interleaving of place_bid, delete_bid and delete_auction every Bid row ever
\* created is still there, with its auction.
C29_BidsNeverRemoved ==
    /\ \A i \in DOMAIN bids : ~bids[i].removed
    /\ bids # <<>> => auction # NoItem

\* C30 -- the sweep moves no money: the step in which the read-path sweep or
\* the periodic command saves the auction it closes leaves every balance, the
\* ledger, the Bid rows and the auction's current_price and end_time as they
\* are stored; only status and winner change.
C30_SweepMovesNoMoney ==
    [][\A r \in Reqs :
          (req[r].op \in {"sweep", "command"} /\ req'[r] = Idle) =>
              /\ balance' = balance
              /\ ledger' = ledger
              /\ bids' = bids
              /\ auction'.current_price = auction.current_price
              /\ auction'.end_time = auction.end_time]_vars

\* the amounts of the end-to-end scenario, in the scale of the model: the low
\* bid B tries first, A's bid, and B's second bid
LowBid == StartingPrice + 1
FirstBid == StartingPrice + 2
TopBid == StartingPrice + 3

\* the Bid rows are A's FirstBid and then (n = 2) B's TopBid
ScenarioBids(n) ==
    /\ Len(bids) = n
    /\ bids[1].bidder = "A" /\ bids[1].amount = FirstBid
    /\ n = 2 => bids[2].bidder = "B" /\ bids[2].amount = TopBid /\ ~bids[2].is_deleted

\* C31 -- the end-to-end scenario, step by step from the state the scenario
\* has reached: A's bid above the starting price is accepted (price = the
\* bid, A debited); B's bid below that price is then rejected; B's higher bid
\* is accepted (price = the bid, B debited); A's withdrawal credits A in full
\* and leaves the price; after the sweep the auction is closed, B is the
\* winner, the price is B's bid, A's balance is the initial one and B's is
\* reduced by exactly the bid.
C31_EndToEnd ==
    req[1] = Idle =>
        /\ (ScenarioBids(1) /\ ~bids[1].is_deleted) =>
              /\ auction.current_price = FirstBid
              /\ balance["A"] = InitialBalance - FirstBid
              /\ balance["B"] = InitialBalance
              /\ ~ENABLED PlaceBidLoad(1, "B", LowBid)
        /\ ScenarioBids(2) =>
              /\ auction.current_price = TopBid
              /\ balance["B"] = InitialBalance - TopBid
              /\ balance["A"] = IF bids[1].is_deleted THEN InitialBalance
                                ELSE InitialBalance - FirstBid
              /\ auction.status = "closed" => auction.winner = "B"

\* C32 -- expiry is final for bidding: once now >= end_time holds for the
\* auction no step makes it open for bids again; in particular the seller's
\* extension of an auction that has expired and is still stored as active does
\* not reopen it.
C32_ExpiryIsFinal ==
    [][(auction # NoItem /\ now >= auction.end_time) => ~is_active(auction', now')]_vars
====
